---- MODULE Spec2Model ----
(***************************************************************************)
(* Proxy cache: the in-memory cache store (service/cache/cache.go) and the *)
(* /proxy and /cache handlers of newServer, run by concurrent request      *)
(* workers that share one Cache and one wall clock.                        *)
(***************************************************************************)
EXTENDS Integers, Sequences, FiniteSets, TLC

VARIABLES
    now,       \* wall clock, in ticks (time.Now())
    entries,   \* Cache.entries: url -> *Entry
    rlock,     \* workers holding Cache.mu for reading
    wlock,     \* worker holding Cache.mu for writing
    pc,        \* per worker: position in the handler
    op,        \* per worker: which handler runs ("proxy" / "purge")
    url,       \* per worker: targetURL
    entry,     \* per worker: the entry variable of Get / of the hit path
    resp,      \* per worker: the origin response read on the miss path
    pending,   \* per worker: the &cache.Entry{...} handed to Set
    out,       \* per worker: the response written to w
    fetched,   \* per worker: http.Get was issued during this request
    basis,     \* per worker: no Set / successful purge of url since the request began
    follows,   \* per worker: a proxy request begun when the last mutation of url was a purge
    hist,      \* per url: last handler-level store mutation ("set" / "purge")
    touched,   \* per worker: the last change this request made to the map ("none" if none)
    badKey,    \* per worker: the request's supplied key differs from the configured key
    lapsed,    \* per url: a Get returned absent on an expired entry and no Set followed
    policy     \* one origin response taken through ParseCacheControl and the entry built from it

\* the variables of the request workers and of the store
handlerVars == <<now, entries, rlock, wlock, pc, op, url, entry, resp, pending, out,
                 fetched, basis, follows, hist, touched, badKey, lapsed>>

vars == <<now, entries, rlock, wlock, pc, op, url, entry, resp, pending, out,
          fetched, basis, follows, hist, touched, badKey, lapsed, policy>>

----------------------------------------------------------------------------
(* Bounds of the model *)

\* last clock tick explored
MaxTime == 4
\* clock ticks per second (the real clock has 10^9)
TicksPerSecond == 2
\* width in bits of int and of time.Duration (both are 64 bits wide in the build)
IntBits == 6

Procs == {"w1", "w2"}
None == "none"

----------------------------------------------------------------------------
(* Characters and strings: a string is a sequence of one-character strings *)

UpperCase == <<"A","B","C","D","E","F","G","H","I","J","K","L","M",
               "N","O","P","Q","R","S","T","U","V","W","X","Y","Z">>
LowerCase == <<"a","b","c","d","e","f","g","h","i","j","k","l","m",
               "n","o","p","q","r","s","t","u","v","w","x","y","z">>
Digits == <<"0","1","2","3","4","5","6","7","8","9">>
WhiteSpace == {" ", "\t", "\n", "\r"}

IndexOf(seq, c) == IF \E i \in DOMAIN seq : seq[i] = c
                   THEN CHOOSE i \in DOMAIN seq : seq[i] = c
                   ELSE 0

\* strings.ToLower
ToLower(s) == [i \in DOMAIN s |->
                 IF IndexOf(UpperCase, s[i]) # 0
                 THEN LowerCase[IndexOf(UpperCase, s[i])]
                 ELSE s[i]]

\* strings.TrimSpace
RECURSIVE TrimLeft(_)
TrimLeft(s) == IF s # <<>> /\ Head(s) \in WhiteSpace THEN TrimLeft(Tail(s)) ELSE s
RECURSIVE TrimRight(_)
TrimRight(s) == IF s # <<>> /\ s[Len(s)] \in WhiteSpace
                THEN TrimRight(SubSeq(s, 1, Len(s) - 1))
                ELSE s
TrimSpace(s) == TrimRight(TrimLeft(s))

\* strings.Split(s, sep) for a one-character separator
RECURSIVE SplitAcc(_, _, _, _)
SplitAcc(s, sep, cur, acc) ==
    IF s = <<>> THEN Append(acc, cur)
    ELSE IF Head(s) = sep THEN SplitAcc(Tail(s), sep, <<>>, Append(acc, cur))
    ELSE SplitAcc(Tail(s), sep, Append(cur, Head(s)), acc)
Split(s, sep) == SplitAcc(s, sep, <<>>, <<>>)

\* strings.HasPrefix / strings.TrimPrefix
HasPrefix(s, prefix) == Len(s) >= Len(prefix) /\ SubSeq(s, 1, Len(prefix)) = prefix
TrimPrefix(s, prefix) == IF HasPrefix(s, prefix)
                         THEN SubSeq(s, Len(prefix) + 1, Len(s))
                         ELSE s

\* the range of int, and two's-complement wrap-around into it
MaxInt == 2^(IntBits - 1) - 1
MinInt == 0 - 2^(IntBits - 1)
WrapInt(x) == ((x - MinInt) % 2^IntBits) + MinInt

\* strconv.Atoi: optional sign, then one or more decimal digits; a value outside
\* the range of int is an error (strconv.ErrRange)
RECURSIVE DigitsValue(_, _)
DigitsValue(s, acc) ==
    IF s = <<>> THEN acc
    ELSE IF acc > MaxInt + 1 THEN acc
    ELSE DigitsValue(Tail(s), acc * 10 + (IndexOf(Digits, Head(s)) - 1))
AllDigits(s) == s # <<>> /\ \A i \in DOMAIN s : IndexOf(Digits, s[i]) # 0
Atoi(s) ==
    LET signed == s # <<>> /\ Head(s) \in {"+", "-"}
        digits == IF signed THEN Tail(s) ELSE s
        val == IF signed /\ Head(s) = "-" THEN 0 - DigitsValue(digits, 0)
               ELSE DigitsValue(digits, 0)
    IN  IF AllDigits(digits) /\ val >= MinInt /\ val <= MaxInt
        THEN [err |-> FALSE, val |-> val]
        ELSE [err |-> TRUE, val |-> 0]

\* strconv.Itoa
RECURSIVE NatToString(_)
NatToString(n) == IF n < 10 THEN <<Digits[n + 1]>>
                  ELSE Append(NatToString(n \div 10), Digits[(n % 10) + 1])
Itoa(n) == IF n < 0 THEN <<"-">> \o NatToString(0 - n) ELSE NatToString(n)

----------------------------------------------------------------------------
(* cache.ParseCacheControl *)

NoStoreDirective == <<"n","o","-","s","t","o","r","e">>
MaxAgePrefix == <<"m","a","x","-","a","g","e","=">>

Directive_CaseSensitive(d) == TrimSpace(d)
\* strings.TrimSpace(strings.ToLower(d))
Directive(d) == TrimSpace(ToLower(d))

RECURSIVE ScanMaxAge_StopsAtFirstMaxAge(_)
ScanMaxAge_StopsAtFirstMaxAge(directives) ==
    IF directives = <<>> THEN [maxAge |-> 0, store |-> FALSE]
    ELSE LET d == Directive(Head(directives))
             seconds == Atoi(TrimPrefix(d, MaxAgePrefix))
         IN  IF HasPrefix(d, MaxAgePrefix)
             THEN IF ~seconds.err /\ seconds.val > 0
                  THEN [maxAge |-> seconds.val, store |-> TRUE]
                  ELSE [maxAge |-> 0, store |-> FALSE]
             ELSE ScanMaxAge_StopsAtFirstMaxAge(Tail(directives))

\* the second loop: the first max-age directive that parses to a positive int
RECURSIVE ScanMaxAge(_)
ScanMaxAge(directives) ==
    IF directives = <<>> THEN [maxAge |-> 0, store |-> FALSE]
    ELSE LET d == Directive(Head(directives))
             seconds == Atoi(TrimPrefix(d, MaxAgePrefix))
         IN  IF HasPrefix(d, MaxAgePrefix) /\ ~seconds.err /\ seconds.val > 0
             THEN [maxAge |-> seconds.val, store |-> TRUE]
             ELSE ScanMaxAge(Tail(directives))

ParseCacheControl_IgnoresNoStore(header) ==
    IF header = <<>> THEN [maxAge |-> 0, store |-> FALSE]
    ELSE ScanMaxAge(Split(header, ","))

ParseCacheControl(header) ==
    IF header = <<>> THEN [maxAge |-> 0, store |-> FALSE]
    ELSE LET directives == Split(header, ",")
         IN  IF \E i \in DOMAIN directives : Directive(directives[i]) = NoStoreDirective
             THEN [maxAge |-> 0, store |-> FALSE]
             ELSE ScanMaxAge(directives)

----------------------------------------------------------------------------
(* http.Header: canonical header name -> sequence of values *)

EmptyHeader == [k \in {} |-> <<>>]
CacheControlKey == "Cache-Control"
ProxyCacheKey == "X-Proxy-Cache"
\* textproto canonical form of "X-Cache-TTL-Remaining"
TTLRemainingKey == "X-Cache-Ttl-Remaining"

HeaderValues(h, k) == IF k \in DOMAIN h THEN h[k] ELSE <<>>
\* Header.Get: the first value of the key, "" when there is none
HeaderGet(h, k) == IF k \in DOMAIN h /\ h[k] # <<>> THEN h[k][1] ELSE <<>>
\* Header.Add: appends to the values of the key
HeaderAdd(h, k, v) == [x \in DOMAIN h \cup {k} |->
                         IF x = k THEN Append(HeaderValues(h, k), v) ELSE h[x]]
\* Header.Set: replaces the values of the key
HeaderSet(h, k, v) == [x \in DOMAIN h \cup {k} |-> IF x = k THEN <<v>> ELSE h[x]]
\* for k, vals := range src { for _, v := range vals { w.Header().Add(k, v) } }
CopyHeaders(w, src) == [x \in DOMAIN w \cup DOMAIN src |->
                          HeaderValues(w, x) \o HeaderValues(src, x)]

----------------------------------------------------------------------------
(* The origin servers: what http.Get(targetURL) can return *)

URLs == {"u1", "u2"}

HIT == <<"H","I","T">>
MISS == <<"M","I","S","S">>

StatusOK == 200
StatusNoContent == 204
StatusBadRequest == 400
StatusUnauthorized == 401
StatusNotFound == 404
StatusBadGateway == 502

OriginMaxAge ==
    [StatusCode |-> 200, Body |-> "a",
     Header |-> (CacheControlKey :> << <<"m","a","x","-","a","g","e","=","1">> >>)
                @@ (TTLRemainingKey :> << <<"9">> >>)]
OriginNotFoundMaxAge ==
    [StatusCode |-> 404, Body |-> "b",
     Header |-> (CacheControlKey :> << <<"p","u","b","l","i","c",","," ","M","a","x","-","A","g","e","=","2">> >>)]
OriginNoStore ==
    [StatusCode |-> 200, Body |-> "c",
     Header |-> (CacheControlKey :> << <<"m","a","x","-","a","g","e","=","1",","," ","N","o","-","S","t","o","r","e">> >>)]
OriginNoHeader ==
    [StatusCode |-> 500, Body |-> "d", Header |-> EmptyHeader]
OriginMaxAgeZero ==
    [StatusCode |-> 200, Body |-> "e",
     Header |-> (CacheControlKey :> << <<"m","a","x","-","a","g","e","=","0">> >>)]

FetchError == [failure |-> "fetch"]
ReadError == [failure |-> "read"]
NoResp == [failure |-> "none"]

\* u1 answers with storable and non-storable responses, u2 never with a storable one
OriginResponses(u) ==
    IF u = "u1" THEN {OriginMaxAge, OriginNotFoundMaxAge, OriginNoStore}
    ELSE {OriginNoStore, OriginNoHeader, OriginMaxAgeZero}
OriginOutcomes(u) == OriginResponses(u) \cup {FetchError, ReadError}

----------------------------------------------------------------------------
(* cache.Entry and the operations on Cache.entries *)

NoEntry == [nil |-> TRUE]

\* time.Now().After(entry.Expiry)
Expired(t, e) == t > e.Expiry

MapLookup(m, u) == m[u]
MapHas(m, u) == m[u] # NoEntry
MapSet_MergesExisting(m, u, e) ==
    [m EXCEPT ![u] = IF m[u] = NoEntry THEN e ELSE [e EXCEPT !.Expiry = m[u].Expiry]]
MapSet(m, u, e) == [m EXCEPT ![u] = e]
MapDelete_ClearsAll(m, u) == [x \in DOMAIN m |-> NoEntry]
MapDelete(m, u) == [m EXCEPT ![u] = NoEntry]

\* &cache.Entry{Body: body, Headers: resp.Header.Clone(), Expiry: time.Now().Add(maxAge * time.Second)}
\* time.Duration(maxAge) * time.Second is an int64 product and wraps around
NewEntry(r, t, maxAge) ==
    [Body |-> r.Body, Headers |-> r.Header,
     Expiry |-> t + WrapInt(maxAge * TicksPerSecond)]

RemainingSeconds_RoundsUp(e, t) ==
    IF e.Expiry >= t THEN (e.Expiry - t + TicksPerSecond - 1) \div TicksPerSecond
    ELSE 0 - ((t - e.Expiry) \div TicksPerSecond)

\* int(time.Until(entry.Expiry).Seconds()): whole seconds, truncated toward zero
RemainingSeconds(e, t) ==
    IF e.Expiry >= t THEN (e.Expiry - t) \div TicksPerSecond
    ELSE 0 - ((t - e.Expiry) \div TicksPerSecond)

----------------------------------------------------------------------------
(* Responses written by the handlers *)

NoOut == [status |-> 0, headers |-> EmptyHeader, body |-> ""]

\* http.Error(w, msg, code) and bare w.WriteHeader(code)
StatusResponse(code) == [status |-> code, headers |-> EmptyHeader, body |-> ""]

\* GET /proxy, the hit path
HitResponse(e, t) ==
    [status |-> StatusOK,
     headers |-> HeaderSet(HeaderSet(CopyHeaders(EmptyHeader, e.Headers), ProxyCacheKey, HIT),
                           TTLRemainingKey, Itoa(RemainingSeconds(e, t))),
     body |-> e.Body]

\* GET /proxy, the miss path
MissResponse(r) ==
    [status |-> StatusOK,
     headers |-> HeaderSet(CopyHeaders(EmptyHeader, r.Header), ProxyCacheKey, MISS),
     body |-> r.Body]

----------------------------------------------------------------------------
(* authMiddleware *)

ApiKey == "default-api-key"
Keys == {"", ApiKey, "wrong"}
SuppliedKey_QueryFirst(headerKey, queryKey) == IF queryKey = "" THEN headerKey ELSE queryKey
\* the X-API-Key header, or the api_key query parameter when the header is empty
SuppliedKey(headerKey, queryKey) == IF headerKey = "" THEN queryKey ELSE headerKey
Authorized(headerKey, queryKey) == SuppliedKey(headerKey, queryKey) = ApiKey

----------------------------------------------------------------------------
(* Cache-Control headers on their own: a header is drawn, parsed by            *)
(* ParseCacheControl, and the handler builds the entry to store from the result *)

\* longest header drawn, in directives
MaxDirectives == 3

\* n when strconv.Atoi can return it, 0 when it is out of the range of int
InInt(n) == IF n <= MaxInt THEN n ELSE 0

\* directives as they arrive, with what each one means: noStore for a no-store
\* directive, seconds for a max-age directive whose value parses to a positive int
SampleDirectives ==
    {
      [text |-> <<"n","o","-","s","t","o","r","e">>,
       noStore |-> TRUE, seconds |-> 0],
      [text |-> <<" ","N","o","-","S","t","o","r","e","\t">>,
       noStore |-> TRUE, seconds |-> 0],
      [text |-> <<"m","a","x","-","a","g","e","=","5">>,
       noStore |-> FALSE, seconds |-> 5],
      [text |-> <<" ","M","a","x","-","A","g","e","=","7"," ">>,
       noStore |-> FALSE, seconds |-> 7],
      [text |-> <<"m","a","x","-","a","g","e","=","0">>,
       noStore |-> FALSE, seconds |-> 0],
      [text |-> <<"m","a","x","-","a","g","e","=","-","5">>,
       noStore |-> FALSE, seconds |-> 0],
      [text |-> <<"m","a","x","-","a","g","e","=","x">>,
       noStore |-> FALSE, seconds |-> 0],
      [text |-> <<"m","a","x","-","a","g","e","=","2","0">>,
       noStore |-> FALSE, seconds |-> InInt(20)],
      [text |-> <<"m","a","x","-","a","g","e","=","9","9">>,
       noStore |-> FALSE, seconds |-> InInt(99)],
      [text |-> <<"p","u","b","l","i","c">>,
       noStore |-> FALSE, seconds |-> 0],
      [text |-> <<>>,
       noStore |-> FALSE, seconds |-> 0]
    }

DirectiveLists ==
    UNION {[1..n -> SampleDirectives] : n \in 0..MaxDirectives}

\* the header value: the directives joined by commas
RECURSIVE JoinDirectives(_)
JoinDirectives(ds) ==
    IF ds = <<>> THEN <<>>
    ELSE IF Len(ds) = 1 THEN ds[1].text
    ELSE ds[1].text \o <<",">> \o JoinDirectives(Tail(ds))

\* the origin response that carries the header
PolicyResponse(ds) ==
    [StatusCode |-> 200, Body |-> "p",
     Header |-> (CacheControlKey :> <<JoinDirectives(ds)>>)]

NoParse == [maxAge |-> 0, store |-> FALSE, parsed |-> FALSE]
PolicyIdle == [stage |-> "idle", dirs |-> <<>>, parsed |-> NoParse, stored |-> NoEntry, at |-> 0]

----------------------------------------------------------------------------
(* History kept for stating the properties *)

\* the key a request supplies (the header's, the query's when the header has none)
\* is not the configured key
KeyDiffers(hk, qk) == (hk # "" /\ hk # ApiKey) \/ (hk = "" /\ qk # ApiKey)

\* kind: the mutation; entry: the entry set; stale: the purged entry had expired
NoHist == [kind |-> "none", entry |-> NoEntry, stale |-> FALSE]
\* a Set or a successful purge of u ends the basis of every request on u
EndBasis(u) == [q \in Procs |-> IF url[q] = u THEN FALSE ELSE basis[q]]

----------------------------------------------------------------------------
(* Initial state: cache.New(), no request in progress *)

InitHandlers ==
    /\ now = 0
    /\ entries = [u \in URLs |-> NoEntry]
    /\ rlock = {}
    /\ wlock = None
    /\ pc = [p \in Procs |-> "idle"]
    /\ op = [p \in Procs |-> None]
    /\ url = [p \in Procs |-> ""]
    /\ entry = [p \in Procs |-> NoEntry]
    /\ resp = [p \in Procs |-> NoResp]
    /\ pending = [p \in Procs |-> NoEntry]
    /\ out = [p \in Procs |-> NoOut]
    /\ fetched = [p \in Procs |-> FALSE]
    /\ basis = [p \in Procs |-> FALSE]
    /\ follows = [p \in Procs |-> FALSE]
    /\ hist = [u \in URLs |-> NoHist]
    /\ touched = [p \in Procs |-> "none"]
    /\ badKey = [p \in Procs |-> FALSE]
    /\ lapsed = [u \in URLs |-> FALSE]

\* the server after newServer: an empty cache, no request in progress
Init == InitHandlers /\ policy = PolicyIdle

\* the clock advances
Tick ==
    /\ now < MaxTime
    /\ now' = now + 1
    /\ UNCHANGED <<entries, rlock, wlock, pc, op, url, entry, resp, pending, out,
                   fetched, basis, follows, hist,
                   touched, badKey, lapsed, policy>>

\* a request arrives at a free worker: authMiddleware, then the handler's url check
Begin(p) ==
    /\ pc[p] \in {"idle", "done"}
    /\ entry' = [entry EXCEPT ![p] = NoEntry]
    /\ resp' = [resp EXCEPT ![p] = NoResp]
    /\ pending' = [pending EXCEPT ![p] = NoEntry]
    /\ fetched' = [fetched EXCEPT ![p] = FALSE]
    /\ touched' = [touched EXCEPT ![p] = "none"]
    /\ \E hk \in Keys, qk \in Keys :
         /\ badKey' = [badKey EXCEPT ![p] = KeyDiffers(hk, qk)]
         /\ IF ~Authorized(hk, qk)
            THEN \* http.Error(w, "Unauthorized", 401): the handler is not reached
                 /\ out' = [out EXCEPT ![p] = StatusResponse(StatusUnauthorized)]
                 /\ pc' = [pc EXCEPT ![p] = "done"]
                 /\ op' = [op EXCEPT ![p] = None]
                 /\ url' = [url EXCEPT ![p] = ""]
                 /\ basis' = [basis EXCEPT ![p] = FALSE]
                 /\ follows' = [follows EXCEPT ![p] = FALSE]
            ELSE \E kind \in {"proxy", "purge"}, u \in URLs \cup {""} :
                   /\ op' = [op EXCEPT ![p] = kind]
                   /\ url' = [url EXCEPT ![p] = u]
                   /\ IF u = ""
                      THEN \* http.Error(w, "Missing url parameter", 400)
                           /\ out' = [out EXCEPT ![p] = StatusResponse(StatusBadRequest)]
                           /\ pc' = [pc EXCEPT ![p] = "done"]
                           /\ basis' = [basis EXCEPT ![p] = FALSE]
                           /\ follows' = [follows EXCEPT ![p] = FALSE]
                      ELSE /\ out' = [out EXCEPT ![p] = NoOut]
                           /\ pc' = [pc EXCEPT ![p] = IF kind = "proxy" THEN "get_rlock"
                                                      ELSE "del_lock"]
                           /\ basis' = [basis EXCEPT ![p] = TRUE]
                           /\ follows' = [follows EXCEPT ![p] =
                                             kind = "proxy" /\ hist[u].kind = "purge"]
    /\ UNCHANGED <<now, entries, rlock, wlock, hist, lapsed, policy>>

(* Cache.Get *)

\* c.mu.RLock()
Get_RLock(p) ==
    /\ pc[p] = "get_rlock"
    /\ wlock = None
    /\ rlock' = rlock \cup {p}
    /\ pc' = [pc EXCEPT ![p] = "get_read"]
    /\ UNCHANGED <<now, entries, wlock, op, url, entry, resp, pending, out,
                   fetched, basis, follows, hist,
                   touched, badKey, lapsed, policy>>

Get_Read_KeepsRLock(p) ==
    /\ pc[p] = "get_read"
    /\ entry' = [entry EXCEPT ![p] = MapLookup(entries, url[p])]
    /\ pc' = [pc EXCEPT ![p] = "get_check"]
    /\ UNCHANGED <<now, entries, rlock, wlock, op, url, resp, pending, out, fetched, basis,
                   follows, hist, touched, badKey, lapsed, policy>>

\* entry, ok := c.entries[url]; c.mu.RUnlock()
Get_Read(p) ==
    /\ pc[p] = "get_read"
    /\ entry' = [entry EXCEPT ![p] = MapLookup(entries, url[p])]
    /\ rlock' = rlock \ {p}
    /\ pc' = [pc EXCEPT ![p] = "get_check"]
    /\ UNCHANGED <<now, entries, wlock, op, url, resp, pending, out, fetched, basis, follows, hist,
                   touched, badKey, lapsed, policy>>

\* where Get goes after the lookup: returns absent, evicts, or returns the entry
GetCheckNext(e, t) ==
    IF e = NoEntry THEN "fetch"
    ELSE IF Expired(t, e) THEN "get_lock"
    ELSE "hit"

\* if !ok { return nil, false }; if time.Now().After(entry.Expiry) {...}; return entry, true
Get_Check(p) ==
    /\ pc[p] = "get_check"
    /\ pc' = [pc EXCEPT ![p] = GetCheckNext(entry[p], now)]
    /\ UNCHANGED <<now, entries, rlock, wlock, op, url, entry, resp, pending, out,
                   fetched, basis, follows, hist,
                   touched, badKey, lapsed, policy>>

\* c.mu.Lock() of the eviction
Get_Lock(p) ==
    /\ pc[p] = "get_lock"
    /\ wlock = None /\ rlock = {}
    /\ wlock' = p
    /\ pc' = [pc EXCEPT ![p] = "get_del"]
    /\ UNCHANGED <<now, entries, rlock, op, url, entry, resp, pending, out,
                   fetched, basis, follows, hist,
                   touched, badKey, lapsed, policy>>

Get_Delete_SkipsDelete(p) ==
    /\ pc[p] = "get_del"
    /\ wlock' = None
    /\ entry' = [entry EXCEPT ![p] = NoEntry]
    /\ pc' = [pc EXCEPT ![p] = "fetch"]
    /\ lapsed' = [lapsed EXCEPT ![url[p]] = TRUE]
    /\ UNCHANGED <<now, entries, rlock, op, url, resp, pending, out, fetched, basis, follows,
                   hist, touched, badKey, policy>>

\* delete(c.entries, url); c.mu.Unlock(); return nil, false
Get_Delete(p) ==
    /\ pc[p] = "get_del"
    /\ entries' = MapDelete(entries, url[p])
    /\ wlock' = None
    /\ entry' = [entry EXCEPT ![p] = NoEntry]
    /\ pc' = [pc EXCEPT ![p] = "fetch"]
    /\ touched' = [touched EXCEPT ![p] = IF MapHas(entries, url[p]) THEN "evict" ELSE @]
    /\ lapsed' = [lapsed EXCEPT ![url[p]] = TRUE]
    /\ UNCHANGED <<now, rlock, op, url, resp, pending, out, fetched, basis, follows, hist,
                   badKey, policy>>

(* GET /proxy *)

Proxy_Hit_NoReturn(p) ==
    /\ pc[p] = "hit"
    /\ out' = [out EXCEPT ![p] = HitResponse(entry[p], now)]
    /\ pc' = [pc EXCEPT ![p] = "fetch"]
    /\ UNCHANGED <<now, entries, rlock, wlock, op, url, entry, resp, pending,
                   fetched, basis, follows, hist,
                   touched, badKey, lapsed, policy>>

\* the hit path: headers, remaining TTL, 200 and the stored body; return nil, nil
Proxy_Hit(p) ==
    /\ pc[p] = "hit"
    /\ out' = [out EXCEPT ![p] = HitResponse(entry[p], now)]
    /\ pc' = [pc EXCEPT ![p] = "done"]
    /\ UNCHANGED <<now, entries, rlock, wlock, op, url, entry, resp, pending,
                   fetched, basis, follows, hist,
                   touched, badKey, lapsed, policy>>

Proxy_Fetch_StoresBeforeReadCheck(p) ==
    /\ pc[p] = "fetch"
    /\ wlock = None /\ rlock = {}
    /\ fetched' = [fetched EXCEPT ![p] = TRUE]
    /\ \E o \in OriginResponses(url[p]) :
         /\ pending' = [pending EXCEPT ![p] = NewEntry(o, now, 1)]
         /\ entries' = MapSet(entries, url[p], NewEntry(o, now, 1))
    /\ touched' = [touched EXCEPT ![p] = "set"]
    /\ out' = [out EXCEPT ![p] = StatusResponse(StatusBadGateway)]
    /\ pc' = [pc EXCEPT ![p] = "done"]
    /\ UNCHANGED <<now, rlock, wlock, op, url, entry, resp, basis, follows, hist,
                   badKey, lapsed, policy>>

\* the miss path: http.Get, io.ReadAll, ParseCacheControl, and the entry to store
Proxy_Fetch(p) ==
    /\ pc[p] = "fetch"
    /\ fetched' = [fetched EXCEPT ![p] = TRUE]
    /\ \E o \in OriginOutcomes(url[p]) :
         IF o \in {FetchError, ReadError}
         THEN /\ out' = [out EXCEPT ![p] = StatusResponse(StatusBadGateway)]
              /\ pc' = [pc EXCEPT ![p] = "done"]
              /\ UNCHANGED <<resp, pending>>
         ELSE LET cc == ParseCacheControl(HeaderGet(o.Header, CacheControlKey))
              IN  /\ resp' = [resp EXCEPT ![p] = o]
                  /\ IF cc.store
                     THEN /\ pending' = [pending EXCEPT ![p] = NewEntry(o, now, cc.maxAge)]
                          /\ pc' = [pc EXCEPT ![p] = "set_lock"]
                          /\ UNCHANGED out
                     ELSE /\ out' = [out EXCEPT ![p] = MissResponse(o)]
                          /\ pc' = [pc EXCEPT ![p] = "done"]
                          /\ UNCHANGED pending
    /\ UNCHANGED <<now, entries, rlock, wlock, op, url, entry, basis, follows, hist,
                   touched, badKey, lapsed, policy>>

(* Cache.Set *)

\* c.mu.Lock()
Set_Lock(p) ==
    /\ pc[p] = "set_lock"
    /\ wlock = None /\ rlock = {}
    /\ wlock' = p
    /\ pc' = [pc EXCEPT ![p] = "set_write"]
    /\ UNCHANGED <<now, entries, rlock, op, url, entry, resp, pending, out,
                   fetched, basis, follows, hist,
                   touched, badKey, lapsed, policy>>

\* c.entries[url] = entry; c.mu.Unlock(); then the handler writes the MISS response
Set_Write(p) ==
    /\ pc[p] = "set_write"
    /\ entries' = MapSet(entries, url[p], pending[p])
    /\ wlock' = None
    /\ out' = [out EXCEPT ![p] = MissResponse(resp[p])]
    /\ pc' = [pc EXCEPT ![p] = "done"]
    /\ hist' = [hist EXCEPT ![url[p]] = [kind |-> "set", entry |-> pending[p], stale |-> FALSE]]
    /\ basis' = EndBasis(url[p])
    /\ touched' = [touched EXCEPT ![p] = "set"]
    /\ lapsed' = [lapsed EXCEPT ![url[p]] = FALSE]
    /\ UNCHANGED <<now, rlock, op, url, entry, resp, pending, fetched, follows, badKey, policy>>

(* Cache.Delete and DELETE /cache *)

\* c.mu.Lock(); defer c.mu.Unlock()
Delete_Lock(p) ==
    /\ pc[p] = "del_lock"
    /\ wlock = None /\ rlock = {}
    /\ wlock' = p
    /\ pc' = [pc EXCEPT ![p] = "del_do"]
    /\ UNCHANGED <<now, entries, rlock, op, url, entry, resp, pending, out,
                   fetched, basis, follows, hist,
                   touched, badKey, lapsed, policy>>

DeleteFound_AlwaysTrue(m, u) == TRUE
DeleteFound_ChecksExpiry(m, u) == MapHas(m, u) /\ ~Expired(now, m[u])
\* Delete's return value: _, ok := c.entries[url]
DeleteFound(m, u) == MapHas(m, u)

DeleteRemove_Keeps(m, u) == m
\* delete(c.entries, url) of Delete
DeleteRemove(m, u) == MapDelete(m, u)

\* the lookup, delete(c.entries, url), the deferred Unlock, and the handler's 204 / 404
Delete_Do(p) ==
    /\ pc[p] = "del_do"
    /\ LET found == DeleteFound(entries, url[p])
       IN  /\ entries' = IF found THEN DeleteRemove(entries, url[p]) ELSE entries
           /\ out' = [out EXCEPT ![p] = StatusResponse(IF found THEN StatusNoContent
                                                       ELSE StatusNotFound)]
           /\ hist' = IF found
                      THEN [hist EXCEPT ![url[p]] =
                              [kind |-> "purge", entry |-> NoEntry,
                               stale |-> MapHas(entries, url[p]) /\ Expired(now, entries[url[p]])]]
                      ELSE hist
           /\ basis' = IF found THEN EndBasis(url[p]) ELSE basis
           /\ touched' = [touched EXCEPT ![p] = IF found THEN "purge" ELSE @]
    /\ wlock' = None
    /\ pc' = [pc EXCEPT ![p] = "done"]
    /\ UNCHANGED <<now, rlock, op, url, entry, resp, pending, fetched, follows, badKey, lapsed, policy>>

Next ==
    \/ Tick
    \/ \E p \in Procs :
         \/ Begin(p)
         \/ Get_RLock(p)
         \/ Get_Read(p)
         \/ Get_Check(p)
         \/ Get_Lock(p)
         \/ Get_Delete(p)
         \/ Proxy_Hit(p)
         \/ Proxy_Fetch(p)
         \/ Set_Lock(p)
         \/ Set_Write(p)
         \/ Delete_Lock(p)
         \/ Delete_Do(p)

Spec == Init /\ [][Next]_vars

----------------------------------------------------------------------------
(* Properties *)

Cached(u) == MapHas(entries, u)
ProxyDone(p) == pc[p] = "done" /\ op[p] = "proxy"
PurgeDone(p) == pc[p] = "done" /\ op[p] = "purge" /\ url[p] \in URLs
ServedAs(p, status) == ProxyDone(p) /\ HeaderValues(out[p].headers, ProxyCacheKey) = <<status>>
\* the step in which Get decides on what it looked up
GetDecides(p) == pc[p] = "get_check" /\ pc'[p] # "get_check"
\* the step in which the hit path writes its response
HitResponds(p) == pc[p] = "hit" /\ pc'[p] # "hit"
\* the step in which Delete runs and the purge handler answers
PurgeAnswers(p) == pc[p] = "del_do" /\ pc'[p] = "done"
\* the max-age the entry was stored with, read back from its stored headers
StoredMaxAge(e) == Atoi(TrimPrefix(Directive(
                       LET ds == Split(HeaderGet(e.Headers, CacheControlKey), ",")
                       IN  ds[CHOOSE i \in DOMAIN ds : HasPrefix(Directive(ds[i]), MaxAgePrefix)]),
                     MaxAgePrefix)).val
ReportedTTL(p) == Atoi(HeaderGet(out[p].headers, TTLRemainingKey))

\* C1: Get returns the entry only when the current time is strictly before the
\* entry's expiry; at every instant now >= expiry, now == expiry included, it
\* returns absent.
C1_GetOnlyBeforeExpiry ==
    [][\A p \in Procs :
         GetDecides(p) /\ entry[p] # NoEntry
           => (pc'[p] = "hit" <=> now < entry[p].Expiry)]_vars

\* C2: a proxy request for u that begins after a miss stored u, with no purge and
\* no other Set of u in between, and looks u up before the stored entry's expiry,
\* is a HIT on exactly the stored entry and answers its body and headers.
C2_HitAfterStorableMiss ==
    [][\A p \in Procs :
         /\ (GetDecides(p) /\ basis[p] /\ hist[url[p]].kind = "set"
               /\ now < hist[url[p]].entry.Expiry)
              => (pc'[p] = "hit" /\ entry[p] = hist[url[p]].entry)
         /\ HitResponds(p)
              => /\ out'[p].body = entry[p].Body
                 /\ \A k \in DOMAIN entry[p].Headers \ {ProxyCacheKey, TTLRemainingKey} :
                      HeaderValues(out'[p].headers, k) = entry[p].Headers[k]]_vars

\* C3: a request served as a HIT issues no origin call; the origin is called only
\* by a request whose Get returned absent.
C3_HitNeverFetches ==
    \A p \in Procs :
      /\ fetched[p] => entry[p] = NoEntry /\ ~ServedAs(p, HIT)
      /\ (pc[p] = "hit" \/ ServedAs(p, HIT)) => ~fetched[p] /\ resp[p] = NoResp

C3_Witness ==
    \E p \in Procs : ServedAs(p, HIT) /\ ~fetched[p] /\ entry[p] # NoEntry

\* C4: u2's origin answers only with non-storable responses (no-store, no
\* Cache-Control header, max-age=0): u2 is never in the store, no worker ever
\* holds an entry for it, and every answered proxy request for it is a MISS.
C4_NonStorableNeverStored ==
    /\ ~Cached("u2")
    /\ \A p \in Procs :
         url[p] = "u2" =>
           /\ entry[p] = NoEntry /\ pending[p] = NoEntry
           /\ pc[p] \notin {"hit", "set_lock", "set_write"}
           /\ (ProxyDone(p) /\ out[p].status = StatusOK) => ServedAs(p, MISS)

C4_Witness ==
    \E p \in Procs : /\ url[p] = "u2" /\ ServedAs(p, MISS)
                     /\ resp[p] = OriginNoStore /\ ~Cached("u2")

\* C5: the purge handler answers 204 exactly when Delete found and removed the
\* entry and 404 otherwise; a Delete that follows a successful Delete of the same
\* key with no Set in between returns false; a Delete of an absent key leaves the
\* store unchanged.
C5_PurgeStatusMatchesDelete ==
    [][\A p \in Procs :
         PurgeAnswers(p) =>
           /\ out'[p].status = IF Cached(url[p]) THEN StatusNoContent ELSE StatusNotFound
           /\ entries'[url[p]] = NoEntry
           /\ \A u \in URLs \ {url[p]} : entries'[u] = entries[u]
           /\ ~Cached(url[p]) => entries' = entries
           /\ hist[url[p]].kind = "purge" => out'[p].status = StatusNotFound]_vars

C5_Witness ==
    \E p \in Procs : /\ PurgeDone(p) /\ out[p].status = StatusNotFound
                     /\ hist[url[p]].kind = "purge"

\* C6 as stated: after a purge of a cached url answered success, the next proxy
\* request for that url (one that begins while the purge is still the last
\* mutation of the url) is answered MISS.
C6_NextAfterPurgeIsMiss ==
    \A p \in Procs :
      (follows[p] /\ ProxyDone(p) /\ out[p].status = StatusOK) => ServedAs(p, MISS)

\* C6 amended: after a purge of a cached url answered success, a proxy request
\* for it that begins before any Set of the url lands, and looks the url up
\* before any does, finds no entry, is never served from the cache, and is
\* answered MISS after an origin call.
C6_MissAfterPurge ==
    \A p \in Procs :
      (op[p] = "proxy" /\ url[p] \in URLs /\ basis[p] /\ hist[url[p]].kind = "purge")
        => /\ ~Cached(url[p]) /\ entry[p] = NoEntry
           /\ pc[p] \notin {"hit", "get_lock", "get_del"}
           /\ pc[p] = "done" => fetched[p] /\ ~ServedAs(p, HIT)
           /\ (pc[p] = "done" /\ out[p].status = StatusOK) => ServedAs(p, MISS)

C6_Witness ==
    \E p \in Procs : /\ follows[p] /\ basis[p] /\ hist[url[p]].kind = "purge"
                     /\ ServedAs(p, MISS) /\ fetched[p]

\* C7 as stated: whenever a proxy request for u at this instant would not be
\* served from the cache (u is absent, or its entry has expired), a purge of u
\* at this instant answers 404.
C7_PurgeOfExpiredIsNotFound ==
    [][\A p \in Procs :
         (PurgeAnswers(p) /\ GetCheckNext(entries[url[p]], now) # "hit")
           => out'[p].status = StatusNotFound]_vars

\* C7 amended: a purge answers 404 exactly when the map holds no entry for the
\* url (never cached, purged, or already evicted by a Get); an expired entry
\* that no Get has evicted yet is removed and answered 204.
C7_PurgeNotFoundIffAbsent ==
    [][\A p \in Procs :
         PurgeAnswers(p) =>
           /\ out'[p].status = StatusNotFound <=> entries[url[p]] = NoEntry
           /\ (entries[url[p]] # NoEntry /\ now > entries[url[p]].Expiry)
                => (out'[p].status = StatusNoContent /\ entries'[url[p]] = NoEntry)]_vars

C7_Witness ==
    \E p \in Procs : /\ PurgeDone(p) /\ out[p].status = StatusNoContent
                     /\ hist[url[p]].kind = "purge" /\ hist[url[p]].stale

\* C8: on a MISS with a successful origin fetch the proxy answers the origin's
\* status code, whatever it is, and the origin's body unmodified.
C8_MissRelaysOriginStatus ==
    \A p \in Procs :
      (ProxyDone(p) /\ resp[p] # NoResp)
        => (out[p].status = resp[p].StatusCode /\ out[p].body = resp[p].Body)

\* C9: every successful proxy response carries X-Proxy-Cache equal to exactly
\* HIT or MISS, and carries X-Cache-TTL-Remaining if and only if it is a HIT.
C9_TTLHeaderOnlyOnHit ==
    \A p \in Procs :
      (ProxyDone(p) /\ out[p].status = StatusOK)
        => /\ ServedAs(p, HIT) \/ ServedAs(p, MISS)
           /\ TTLRemainingKey \in DOMAIN out[p].headers <=> ServedAs(p, HIT)

\* C10 as stated: on every HIT the reported ttl-remaining lies in (0, M], M the
\* max-age the entry was stored with.
C10_TTLRemainingInRange ==
    \A p \in Procs :
      ServedAs(p, HIT)
        => /\ ~ReportedTTL(p).err
           /\ ReportedTTL(p).val > 0
           /\ ReportedTTL(p).val <= StoredMaxAge(entry[p])

\* C10 amended: on every HIT the reported ttl-remaining is expiry minus now in
\* whole seconds truncated toward zero; it never exceeds M and is at least 1
\* when a whole second or more remains, but it is 0 when less than a second
\* remains (now == expiry included) and is zero or negative when the response
\* is computed after the expiry.
C10_TTLRemainingTruncated ==
    [][\A p \in Procs :
         HitResponds(p) =>
           LET d == entry[p].Expiry - now
               ttl == Atoi(HeaderGet(out'[p].headers, TTLRemainingKey))
           IN  /\ ~ttl.err
               /\ ttl.val <= StoredMaxAge(entry[p])
               /\ d >= 0 => (ttl.val * TicksPerSecond <= d /\ d < (ttl.val + 1) * TicksPerSecond)
               /\ d < 0 => (ttl.val <= 0 /\ d <= ttl.val * TicksPerSecond
                              /\ (ttl.val - 1) * TicksPerSecond < d)]_vars

C10_Witness ==
    \E p \in Procs : /\ ServedAs(p, HIT) /\ ReportedTTL(p) = [err |-> FALSE, val |-> 0]
                     /\ now < entry[p].Expiry

----------------------------------------------------------------------------
(* The miss path's caching decision and entry, for one header at a time *)

PolicyInit ==
    /\ InitHandlers
    /\ \E ds \in DirectiveLists : policy = [PolicyIdle EXCEPT !.stage = "header", !.dirs = ds]

\* cc := resp.Header.Get("Cache-Control"); maxAge, shouldStore := cache.ParseCacheControl(cc)
Policy_Parse ==
    /\ policy.stage = "header"
    /\ policy' = [policy EXCEPT
                     !.stage = "parsed",
                     !.parsed = ParseCacheControl(
                                    HeaderGet(PolicyResponse(policy.dirs).Header, CacheControlKey))]
    /\ UNCHANGED handlerVars

\* if shouldStore { c.Set(targetURL, &cache.Entry{...}) }, at any instant of the clock
Policy_Store ==
    /\ policy.stage = "parsed"
    /\ policy.parsed.store
    /\ \E t \in 0..MaxTime :
         policy' = [policy EXCEPT
                      !.stage = "stored",
                      !.at = t,
                      !.stored = NewEntry(PolicyResponse(policy.dirs), t, policy.parsed.maxAge)]
    /\ UNCHANGED handlerVars

PolicyNext == Policy_Parse \/ Policy_Store

PolicySpec == PolicyInit /\ [][PolicyNext]_vars

----------------------------------------------------------------------------
(* Failed requests and the store *)

\* the request of p has ended with this status
EndedWith(p, status) == pc[p] = "done" /\ out[p].status = status

\* C11 as stated: a request that ended in 400 or 502 made no change to the map
C11_FailedRequestLeavesStoreUnchanged ==
    \A p \in Procs :
        (EndedWith(p, StatusBadRequest) \/ EndedWith(p, StatusBadGateway))
            => touched[p] = "none"

\* C11: a request that ended in 400 reached neither the origin nor the store; one
\* that ended in 502 never called Set, and the only change it can have made to
\* the map is the eviction of its own url by Get
C11_FailedRequestNeverSets ==
    \A p \in Procs :
        /\ EndedWith(p, StatusBadRequest)
              => touched[p] = "none" /\ ~fetched[p] /\ pending[p] = NoEntry
        /\ EndedWith(p, StatusBadGateway)
              => /\ touched[p] \in {"none", "evict"}
                 /\ fetched[p] /\ pending[p] = NoEntry /\ resp[p] = NoResp

\* a request ended in 502 after its Get evicted an entry, and one ended in 400
\* beside a cached entry
C11_Witness ==
    \E p, q \in Procs :
        /\ EndedWith(p, StatusBadGateway) /\ touched[p] = "evict"
        /\ ~Cached(url[p])
        /\ EndedWith(q, StatusBadRequest) /\ op[q] = "proxy"

----------------------------------------------------------------------------
(* Concurrent misses of one URL *)

\* the request of p was a miss that has stored its entry and returned
MissStored(p) == ProxyDone(p) /\ touched[p] = "set"

\* C12: when two requests for the same URL have both missed and both called Set,
\* the map holds for that URL one whole entry, equal to the entry written by the
\* Set that took the lock last and so to one of the two, never a mixture
C12_LastSetWinsWhole ==
    \A p, q \in Procs :
        (p # q /\ MissStored(p) /\ MissStored(q) /\ url[p] = url[q])
            => /\ Cached(url[p])
               /\ entries[url[p]] \in {pending[p], pending[q]}
               /\ hist[url[p]].kind = "set" /\ entries[url[p]] = hist[url[p]].entry

\* two misses raced: both stored the same origin response, and the entry that
\* stayed is the one built earlier, written last
C12_Witness ==
    \E p, q \in Procs :
        /\ p # q /\ MissStored(p) /\ MissStored(q) /\ url[p] = url[q]
        /\ pending[p].Body = pending[q].Body
        /\ pending[q].Expiry < pending[p].Expiry
        /\ entries[url[p]] = pending[q]

----------------------------------------------------------------------------
(* The lock and the origin fetch *)

\* p holds Cache.mu, for reading or for writing
HoldsLock(p) == p \in rlock \/ wlock = p

\* the positions inside a critical section of Get, Set or Delete
CriticalSections == {"get_read", "get_del", "set_write", "del_do"}

\* C13: a request holds the store lock only inside a critical section of Get, Set
\* or Delete, so never while its origin fetch is in progress
C13_NoLockDuringFetch ==
    \A p \in Procs :
        /\ pc[p] = "fetch" => ~HoldsLock(p)
        /\ HoldsLock(p) => pc[p] \in CriticalSections

\* while one request is at its origin fetch and holds nothing, another request
\* for the same URL holds the write lock inside Set
C13_Witness ==
    \E p, q \in Procs :
        /\ pc[p] = "fetch" /\ ~HoldsLock(p)
        /\ q # p /\ wlock = q /\ pc[q] = "set_write" /\ url[q] = url[p]

----------------------------------------------------------------------------
(* ParseCacheControl *)

NotStorable == [maxAge |-> 0, store |-> FALSE]

\* the header drawn has been parsed
Parsed == policy.stage \in {"parsed", "stored"}

\* some directive of the header is no-store
HasNoStore(ds) == \E i \in DOMAIN ds : ds[i].noStore

\* the value of the first max-age directive with a positive value, 0 if none
FirstMaxAge(ds) ==
    IF \E i \in DOMAIN ds : ds[i].seconds > 0
    THEN ds[CHOOSE i \in DOMAIN ds :
                /\ ds[i].seconds > 0
                /\ \A j \in 1..(i - 1) : ds[j].seconds = 0].seconds
    ELSE 0

\* C14: the result is (0, false) for the empty header and whenever some
\* directive, trimmed and lower-cased, is no-store, wherever it stands and
\* whatever max-age the header carries
C14_NoStoreWins ==
    (Parsed /\ (HasNoStore(policy.dirs) \/ JoinDirectives(policy.dirs) = <<>>))
        => policy.parsed = NotStorable

\* a header with a valid max-age first and a no-store written in another case
\* after it has been parsed
C14_Witness ==
    /\ Parsed
    /\ Len(policy.dirs) >= 2
    /\ policy.dirs[1].seconds > 0
    /\ policy.dirs[Len(policy.dirs)].noStore
    /\ policy.dirs[Len(policy.dirs)].text # NoStoreDirective
    /\ policy.parsed = NotStorable

\* C15: without no-store the result is (N, true) for the first max-age
\* directive with a positive integer N, skipping earlier max-age directives
\* that are malformed, zero or negative, and (0, false) when there is none;
\* the response is storable exactly when the max-age returned is positive
C15_FirstPositiveMaxAge ==
    /\ (Parsed /\ ~HasNoStore(policy.dirs))
          => policy.parsed = IF FirstMaxAge(policy.dirs) > 0
                             THEN [maxAge |-> FirstMaxAge(policy.dirs), store |-> TRUE]
                             ELSE NotStorable
    /\ Parsed => (policy.parsed.store <=> policy.parsed.maxAge > 0)

\* a zero and a malformed max-age came before the positive one that was returned
C15_Witness ==
    /\ Parsed
    /\ Len(policy.dirs) = 3
    /\ HasPrefix(policy.dirs[1].text, MaxAgePrefix) /\ policy.dirs[1].seconds = 0
    /\ HasPrefix(policy.dirs[2].text, MaxAgePrefix) /\ policy.dirs[2].seconds = 0
    /\ policy.dirs[1] # policy.dirs[2]
    /\ policy.parsed = [maxAge |-> policy.dirs[3].seconds, store |-> TRUE]

----------------------------------------------------------------------------
(* The expiry of a stored entry *)

\* C19 as stated: the entry built for Set expires strictly after the instant it
\* is built at, exactly maxAge seconds after it, for every maxAge that
\* ParseCacheControl returns
C19_ExpiryIsStorePlusMaxAge ==
    policy.stage = "stored"
        => /\ policy.stored.Expiry > policy.at
           /\ policy.stored.Expiry = policy.at + policy.parsed.maxAge * TicksPerSecond

----------------------------------------------------------------------------
(* Authentication *)

\* C16: a request whose supplied key differs from the configured key is answered
\* 401 by the middleware and reaches no handler: it makes no Get, Set or Delete,
\* takes no lock and fetches nothing from an origin
C16_BadKeyIsRejected ==
    \A p \in Procs :
        badKey[p]
            => /\ EndedWith(p, StatusUnauthorized)
               /\ op[p] = None
               /\ ~fetched[p] /\ touched[p] = "none" /\ ~HoldsLock(p)
               /\ entry[p] = NoEntry /\ pending[p] = NoEntry /\ resp[p] = NoResp

\* a request with a wrong key was rejected while the URLs it could have asked for
\* are cached, and the entries are still there
C16_Witness ==
    \E p \in Procs :
        /\ badKey[p] /\ EndedWith(p, StatusUnauthorized)
        /\ Cached("u1")

----------------------------------------------------------------------------
(* Eviction by Get *)

\* the map's entry for u is there and its expiry is still ahead
Unexpired(u) == Cached(u) /\ now < entries[u].Expiry

\* p completes a Set or a Delete of u in this step
SetsOrDeletes(p, u) ==
    url[p] = u /\ pc[p] \in {"set_write", "del_do"} /\ pc'[p] = "done"

\* C17 as stated: an unexpired entry leaves the map or is replaced only by a
\* Delete or a Set of its URL; the eviction of Get never removes one
C17_UnexpiredLeavesOnlyBySetOrDelete ==
    [][\A u \in URLs :
         (Unexpired(u) /\ entries'[u] # entries[u])
             => \E p \in Procs : SetsOrDeletes(p, u)]_vars

----------------------------------------------------------------------------
(* What changes the map *)

\* p's Get, having seen an expired entry, deletes its URL and returns absent
Evicts(p, u) ==
    /\ url[p] = u /\ pc[p] = "get_del" /\ pc'[p] = "fetch"
    /\ entry[p] # NoEntry /\ Expired(now, entry[p])

\* p's Get of u looks the URL up in this step
Looks(p, u) == url[p] = u /\ pc[p] = "get_read" /\ pc'[p] = "get_check"

\* C18: the map changes only in Get's eviction of an entry it saw expired, in
\* Set and in Delete, never by the clock alone; and once a Get has returned
\* absent for a URL because its entry had expired, the URL stays out of the map
\* until the next Set of it: every later Get finds nothing and every Delete
\* answers false
C18_ExpiredStaysAbsentUntilSet ==
    [][\A u \in URLs :
         /\ entries'[u] # entries[u]
               => \E p \in Procs : Evicts(p, u) \/ SetsOrDeletes(p, u)
         /\ lapsed'[u] => ~MapHas(entries', u)
         /\ lapsed[u]
               => \A p \in Procs :
                    /\ Looks(p, u) => entry'[p] = NoEntry
                    /\ (PurgeAnswers(p) /\ url[p] = u)
                          => out'[p].status = StatusNotFound /\ entries' = entries]_vars

\* after a Get evicted an expired entry and before any Set, a purge of the URL
\* has answered 404 and the URL is absent
C18_Witness ==
    \E p, q \in Procs :
        /\ touched[q] = "evict" /\ pc[q] = "fetch" /\ lapsed[url[q]]
        /\ url[p] = url[q] /\ op[p] = "purge" /\ EndedWith(p, StatusNotFound)
        /\ ~Cached(url[q])

----------------------------------------------------------------------------
(* Progress of the store operations *)

\* a step of p inside Get, Set or Delete
StoreStep(p) ==
    \/ Get_RLock(p) \/ Get_Read(p) \/ Get_Check(p) \/ Get_Lock(p) \/ Get_Delete(p)
    \/ Set_Lock(p) \/ Set_Write(p)
    \/ Delete_Lock(p) \/ Delete_Do(p)

\* a goroutine that is runnable runs, and sync.RWMutex lets no waiter starve (a
\* blocked Lock keeps new readers out, Unlock wakes the readers that waited): a
\* caller whose next step is possible again and again takes it
Fairness == \A p \in Procs : SF_vars(StoreStep(p))

\* last clock tick explored while the store is called directly
MaxStoreTime == 1

Store_Tick ==
    /\ now < MaxStoreTime
    /\ now' = now + 1
    /\ UNCHANGED <<entries, rlock, wlock, pc, op, url, entry, resp, pending, out,
                   fetched, basis, follows, hist, touched, badKey, lapsed, policy>>

\* the entry the callers hand to Set: it is live at instant 0 and expired after it
StoreResponse == [StatusCode |-> 200, Body |-> "s", Header |-> EmptyHeader]
StoreEntry == NewEntry(StoreResponse, 0, 0)

\* a caller that is in no store call begins the next one: Get(u), Delete(u) or
\* Set(u, StoreEntry)
Store_Call(p) ==
    /\ pc[p] \in {"idle", "done", "hit", "fetch"}
    /\ \E u \in URLs, kind \in {"get", "set", "delete"} :
         /\ url' = [url EXCEPT ![p] = u]
         /\ op' = [op EXCEPT ![p] = IF kind = "delete" THEN "purge" ELSE "proxy"]
         /\ pc' = [pc EXCEPT ![p] = CASE kind = "get" -> "get_rlock"
                                      [] kind = "set" -> "set_lock"
                                      [] kind = "delete" -> "del_lock"]
         /\ resp' = [resp EXCEPT ![p] = IF kind = "set" THEN StoreResponse ELSE NoResp]
         /\ pending' = [pending EXCEPT ![p] = IF kind = "set" THEN StoreEntry ELSE NoEntry]
    /\ entry' = [entry EXCEPT ![p] = NoEntry]
    /\ out' = [out EXCEPT ![p] = NoOut]
    /\ touched' = [touched EXCEPT ![p] = "none"]
    /\ UNCHANGED <<now, entries, rlock, wlock, fetched, basis, follows, hist, badKey,
                   lapsed, policy>>

StoreNext ==
    \/ Store_Tick
    \/ \E p \in Procs :
         \/ Store_Call(p)
         \/ Get_RLock(p)
         \/ Get_Read(p)
         \/ Get_Check(p)
         \/ Get_Lock(p)
         \/ Get_Delete(p)
         \/ Set_Lock(p)
         \/ Set_Write(p)
         \/ Delete_Lock(p)
         \/ Delete_Do(p)

\* the store under concurrent callers, every runnable call making progress
StoreSpec == Init /\ [][StoreNext]_vars /\ Fairness

\* p is inside a call of Get, Set or Delete: waiting for the lock, holding it,
\* or between the two critical sections of Get
InStoreCall(p) ==
    pc[p] \in {"get_rlock", "get_read", "get_check", "get_lock", "get_del",
               "set_lock", "set_write", "del_lock", "del_do"}

\* p waits for the lock
WaitsForLock(p) == pc[p] \in {"get_rlock", "get_lock", "set_lock", "del_lock"}

\* a step changes the entry of u only as part of an operation on u, and changes
\* no two URLs at once
OwnKeyOnly ==
    \A u \in URLs :
        entries'[u] # entries[u]
            => /\ \E p \in Procs : url[p] = u /\ HoldsLock(p) /\ pc'[p] # pc[p]
               /\ \A v \in URLs \ {u} : entries'[v] = entries[v]

\* C20: no caller waits for the lock while holding it (Get has released the read
\* lock before it asks for the write lock), every call of Get, Set or Delete
\* that has begun returns, having taken and released the lock, and an operation
\* on one URL leaves the entries of the other URLs as they are
C20_OperationsReturn ==
    /\ [](\A p \in Procs : WaitsForLock(p) => ~HoldsLock(p))
    /\ \A p \in Procs : InStoreCall(p) ~> ~InStoreCall(p)
    /\ [][OwnKeyOnly]_vars

\* both workers are inside store calls on different URLs, one holding the write
\* lock and the other waiting for it, with the other URL cached
C20_Witness ==
    \E p, q \in Procs :
        /\ wlock = p /\ pc[p] = "del_do" /\ Cached(url[p])
        /\ pc[q] = "get_lock" /\ url[q] # url[p] /\ Cached(url[q])

====
